---- MODULE Spec2Model ----
(***************************************************************************)
(* State-machine model of the pagination engine of src/server.js:          *)
(* splitTextIntelligently (the page splitter), normalizeTextSpacing and    *)
(* the multi-page branch of the POST /api/render handler.                  *)
(*                                                                         *)
(* A JavaScript string is modelled as a sequence of one-character strings. *)
(* JavaScript indices are 0-based, TLA+ sequences are 1-based: the         *)
(* operators below take and return 0-based indices, as the code does.      *)
(***************************************************************************)
EXTENDS Integers, Sequences, FiniteSets, TLC

\* ---------------------------------------------------------------- bounds
\* Longest text over the core alphabet, longest text over the full alphabet,
\* greatest first-page and continuation capacity.
MaxLen == 7
MaxShort == 4
MaxCap == 5
MaxContCap == 2
\* The split loop is cut off after this many pages: a terminating run over a
\* text of at most MaxLen characters pushes at most MaxLen + 1 pages.
MaxPages == MaxLen + 2

\* ------------------------------------------------------------ characters
SP == " "
NL == "\n"
\* The characters of texts: a letter, the three sentence marks, the two
\* kinds of whitespace. Long texts are drawn from the core alphabet, whose
\* "." is both the non-whitespace character and the sentence mark.
FullAlphabet == {"a", ".", "!", "?", SP, NL}
CoreAlphabet == {".", SP, NL}
RenderAlphabet == {"a", ".", SP, NL}

\* Whitespace as String.prototype.trim and the regex class \s see it.
IsWs(c) == c \in {SP, NL}

Min2(a, b) == IF a < b THEN a ELSE b
Max2(a, b) == IF a > b THEN a ELSE b

SetMax(S) == CHOOSE x \in S : \A y \in S : y <= x
SetMin(S) == CHOOSE x \in S : \A y \in S : x <= y

\* All sequences over A of length lo..hi.
SeqsOf(A, lo, hi) == UNION {[1..n -> A] : n \in lo..hi}

\* ------------------------------------------------- JavaScript string ops
\* s.substring(from, to): both indices clamped to 0..length.
Substring(s, from, to) ==
  LET f == Min2(Max2(from, 0), Len(s))
      t == Min2(Max2(to, 0), Len(s))
  IN  SubSeq(s, Min2(f, t) + 1, Max2(f, t))

\* s.substring(from)
SubstringFrom(s, from) == Substring(s, from, Len(s))

\* s.trim()
Trim(s) ==
  LET keep == {i \in 1..Len(s) : ~IsWs(s[i])}
  IN  IF keep = {} THEN <<>> ELSE SubSeq(s, SetMin(keep), SetMax(keep))

\* s.lastIndexOf(pat, fromIndex): the greatest index <= fromIndex at which
\* pat occurs in s, or -1.
LastIndexOf(s, pat, fromIndex) ==
  LET hits == {p \in 0..Min2(Max2(fromIndex, 0), Len(s) - Len(pat)) :
                 SubSeq(s, p + 1, p + Len(pat)) = pat}
  IN  IF hits = {} THEN -1 ELSE SetMax(hits)

\* Math.max of three
Max3(a, b, c) == Max2(a, Max2(b, c))

\* -------------------------------------------- splitTextIntelligently
\* Position of the paragraph break looked for on line 401.
ParagraphBreak(rem, cap) == LastIndexOf(rem, <<NL, NL>>, cap)

\* SentenceBreak looking for ". " only.
SentenceBreak_PeriodOnly(rem, cap) == LastIndexOf(rem, <<".", SP>>, cap)

\* Position of the sentence break computed on lines 409-413.
SentenceBreak(rem, cap) ==
  Max3(LastIndexOf(rem, <<".", SP>>, cap),
       LastIndexOf(rem, <<"!", SP>>, cap),
       LastIndexOf(rem, <<"?", SP>>, cap))

\* Position of the word break looked for on line 421.
WordBreak(rem, cap) == LastIndexOf(rem, <<SP>>, cap)

\* The thresholds cap * 0.5, cap * 0.6 and cap * 0.7 compared in integers
\* (p > cap * 0.6 iff 10 * p > 6 * cap; the doubles agree for these sizes).
ParagraphOk(rem, cap) == 2 * ParagraphBreak(rem, cap) > cap
SentenceOk(rem, cap) == 10 * SentenceBreak(rem, cap) > 6 * cap
WordOk(rem, cap) == 10 * WordBreak(rem, cap) > 7 * cap

\* BreakPoint with the sentence boundary tried before the paragraph break.
BreakPoint_SentenceFirst(rem, cap) ==
  IF SentenceOk(rem, cap) THEN SentenceBreak(rem, cap) + 2
  ELSE IF ParagraphOk(rem, cap) THEN ParagraphBreak(rem, cap) + 2
  ELSE IF WordOk(rem, cap) THEN WordBreak(rem, cap) + 1
  ELSE cap

\* BreakPoint with the hard break one character past the capacity.
BreakPoint_HardPastCapacity(rem, cap) ==
  IF ParagraphOk(rem, cap) THEN ParagraphBreak(rem, cap) + 2
  ELSE IF SentenceOk(rem, cap) THEN SentenceBreak(rem, cap) + 2
  ELSE IF WordOk(rem, cap) THEN WordBreak(rem, cap) + 1
  ELSE cap + 1

\* Which branch of lines 398-431 chooses the break point.
BreakRule(rem, cap) ==
  IF ParagraphOk(rem, cap) THEN "paragraph"
  ELSE IF SentenceOk(rem, cap) THEN "sentence"
  ELSE IF WordOk(rem, cap) THEN "word"
  ELSE "hard"

\* breakPoint as lines 398-431 leave it.
BreakPoint(rem, cap) ==
  IF ParagraphOk(rem, cap) THEN ParagraphBreak(rem, cap) + 2
  ELSE IF SentenceOk(rem, cap) THEN SentenceBreak(rem, cap) + 2
  ELSE IF WordOk(rem, cap) THEN WordBreak(rem, cap) + 1
  ELSE cap

\* The chunk pushed on lines 434-435 and the remainder of line 438.
ChunkOf(rem, cap) == Trim(Substring(rem, 0, BreakPoint(rem, cap)))

\* RestOf starting one character after the break point.
RestOf_SkipsChar(rem, cap) == Trim(SubstringFrom(rem, BreakPoint(rem, cap) + 1))

RestOf(rem, cap) == Trim(SubstringFrom(rem, BreakPoint(rem, cap)))


\* ------------------------------------------------ normalizeTextSpacing
\* The punctuation class [.,;:!?] of lines 205 and 207.
IsPunct(c) == c \in {".", ",", ";", ":", "!", "?"}

\* Length of the whitespace run s starts with.
WsRun(s) ==
  IF \A i \in 1..Len(s) : IsWs(s[i]) THEN Len(s)
  ELSE SetMin({i \in 1..Len(s) : ~IsWs(s[i])}) - 1

\* Line 205: s.replace(/\s+([.,;:!?])/g, '$1')
RECURSIVE DropWsBeforePunct(_)
DropWsBeforePunct(s) ==
  IF s = <<>> THEN <<>>
  ELSE IF IsWs(s[1])
    THEN LET k == WsRun(s)
         IN  IF k < Len(s) /\ IsPunct(s[k + 1])
               THEN <<s[k + 1]>> \o DropWsBeforePunct(SubSeq(s, k + 2, Len(s)))
               ELSE SubSeq(s, 1, k) \o DropWsBeforePunct(SubSeq(s, k + 1, Len(s)))
  ELSE <<s[1]>> \o DropWsBeforePunct(Tail(s))

\* Line 207: s.replace(/([.,;:!?])([^\s])/g, '$1 $2')
RECURSIVE SpaceAfterPunct(_)
SpaceAfterPunct(s) ==
  IF Len(s) < 2 THEN s
  ELSE IF IsPunct(s[1]) /\ ~IsWs(s[2])
    THEN <<s[1], SP, s[2]>> \o SpaceAfterPunct(SubSeq(s, 3, Len(s)))
  ELSE <<s[1]>> \o SpaceAfterPunct(Tail(s))

\* Line 209: s.replace(/\s{2,}/g, ' ')
RECURSIVE CollapseWs(_)
CollapseWs(s) ==
  IF s = <<>> THEN <<>>
  ELSE IF IsWs(s[1])
    THEN LET k == WsRun(s)
         IN  (IF k >= 2 THEN <<SP>> ELSE <<s[1]>>)
               \o CollapseWs(SubSeq(s, k + 1, Len(s)))
  ELSE <<s[1]>> \o CollapseWs(Tail(s))

\* A JavaScript value: a string (with its characters), undefined or a number.
Str(s) == [kind |-> "string", chars |-> s]
Undefined == [kind |-> "undefined"]
ANumber == [kind |-> "number"]

\* normalizeTextSpacing turning every value into a string first.
normalizeTextSpacing_Coerces(str) ==
  IF str.kind # "string" THEN Str(<<"a", "a">>)
  ELSE Str(Trim(CollapseWs(SpaceAfterPunct(DropWsBeforePunct(str.chars)))))

\* Lines 201-211.
normalizeTextSpacing(str) ==
  IF str.kind # "string" THEN str
  ELSE Str(Trim(CollapseWs(SpaceAfterPunct(DropWsBeforePunct(str.chars)))))

\* ---------------------------------- calculateTextCapacityWithRendering
\* Longest text measured, widest and highest frame measured (mm).
MaxMeasureLen == 5
MaxWidthMm == 3
MaxHeightMm == 8

\* Texts measured: letters, spaces and line feeds.
MeasureAlphabet == {"a", SP, NL}

\* Font size (pt), line height in tenths and character spacing (pt) of a
\* text field.
Typographies ==
  {[fontSize |-> 2, lineHeight10 |-> 10, characterSpacing |-> 0],
   [fontSize |-> 3, lineHeight10 |-> 15, characterSpacing |-> 0],
   [fontSize |-> 2, lineHeight10 |-> 10, characterSpacing |-> 1]}

\* Advance width of a glyph of Helvetica in 1/1000 em.
GlyphWidth(c) == IF c \in {"a", "?"} THEN 556 ELSE 278

\* font.widthOfTextAtSize(s, 1000): Helvetica has no kerning pair among the
\* letter a and the space.
RECURSIVE WidthOfText(_)
WidthOfText(s) == IF s = <<>> THEN 0 ELSE GlyphWidth(s[1]) + WidthOfText(Tail(s))

\* text.split(/\n/)
RECURSIVE SplitLines(_)
SplitLines(s) ==
  IF \A i \in 1..Len(s) : s[i] # NL THEN <<s>>
  ELSE LET k == SetMin({i \in 1..Len(s) : s[i] = NL})
       IN  <<SubSeq(s, 1, k - 1)>> \o SplitLines(SubSeq(s, k + 1, Len(s)))

\* paragraph.split(/\s+/).filter(w => w.length > 0)
RECURSIVE SplitWords(_)
SplitWords(s) ==
  IF s = <<>> THEN <<>>
  ELSE IF IsWs(s[1]) THEN SplitWords(SubSeq(s, WsRun(s) + 1, Len(s)))
  ELSE LET k == IF \A i \in 1..Len(s) : ~IsWs(s[i]) THEN Len(s)
                 ELSE SetMin({i \in 1..Len(s) : IsWs(s[i])}) - 1
       IN  <<SubSeq(s, 1, k)>> \o SplitWords(SubSeq(s, k + 1, Len(s)))

\* Lines 253-260: maxLines, the floor of (heightMm * 2.83465 - 4 * 2.83465)
\* over fontSize * lineHeight.
MaxLines(heightMm, typ) ==
  ((heightMm - 4) * 283465) \div (typ.fontSize * typ.lineHeight10 * 10000)

\* Lines 294-299: testWidth > widthPt, both sides times 100000.
TooWide(testLine, widthMm, typ) ==
  WidthOfText(testLine) * typ.fontSize * 100
      + (IF typ.characterSpacing > 0
           THEN Len(testLine) * typ.characterSpacing * 100000 ELSE 0)
    > widthMm * 283465

\* The locals of the measurement before the first paragraph (lines 269-270).
MeasureStart == [lines |-> <<>>, charCount |-> 0, currentLine |-> <<>>, returned |-> FALSE]

\* CommitLine setting charCount instead of adding to it.
CommitLine_Overwrites(m, line, counted) ==
  [m EXCEPT !.lines = Append(@, line), !.charCount = counted]

\* lines.push(line); charCount += counted (lines 276-277, 304-305, 317-318).
CommitLine(m, line, counted) ==
  [m EXCEPT !.lines = Append(@, line), !.charCount = @ + counted]

\* Lines 289-311: the loop over the words of a paragraph.
RECURSIVE WrapWords(_, _, _, _, _)
WrapWords(words, m, maxLines, widthMm, typ) ==
  IF words = <<>> \/ m.returned THEN m
  ELSE LET word == Head(words)
           testLine == IF m.currentLine # <<>>
                         THEN m.currentLine \o <<SP>> \o word ELSE word
       IN  IF TooWide(testLine, widthMm, typ) /\ m.currentLine # <<>>
             THEN IF Len(m.lines) >= maxLines
                    THEN [m EXCEPT !.returned = TRUE]
                    ELSE WrapWords(Tail(words),
                                   [CommitLine(m, m.currentLine, Len(m.currentLine) + 1)
                                      EXCEPT !.currentLine = word],
                                   maxLines, widthMm, typ)
             ELSE WrapWords(Tail(words), [m EXCEPT !.currentLine = testLine],
                            maxLines, widthMm, typ)

\* EndParagraph committing the last line whether or not a line is left.
EndParagraph_AlwaysCommits(m, maxLines) ==
  IF m.returned \/ m.currentLine = <<>> THEN m
  ELSE [CommitLine(m, m.currentLine, Len(m.currentLine) + 1) EXCEPT !.currentLine = <<>>]

\* EndParagraph counting the last line without its line feed.
EndParagraph_NoLineFeed(m, maxLines) ==
  IF m.returned \/ m.currentLine = <<>> THEN m
  ELSE IF Len(m.lines) < maxLines
    THEN [CommitLine(m, m.currentLine, Len(m.currentLine)) EXCEPT !.currentLine = <<>>]
    ELSE [m EXCEPT !.returned = TRUE]

\* Lines 314-322: the last line of a paragraph.
EndParagraph(m, maxLines) ==
  IF m.returned \/ m.currentLine = <<>> THEN m
  ELSE IF Len(m.lines) < maxLines
    THEN [CommitLine(m, m.currentLine, Len(m.currentLine) + 1) EXCEPT !.currentLine = <<>>]
    ELSE [m EXCEPT !.returned = TRUE]

\* Lines 272-323: the loop over the paragraphs.
RECURSIVE WrapParagraphs(_, _, _, _, _)
WrapParagraphs(paragraphs, m, maxLines, widthMm, typ) ==
  IF paragraphs = <<>> \/ m.returned THEN m
  ELSE IF Trim(Head(paragraphs)) = <<>>
    THEN IF Len(m.lines) < maxLines
           THEN WrapParagraphs(Tail(paragraphs), CommitLine(m, <<>>, 1),
                               maxLines, widthMm, typ)
           ELSE [m EXCEPT !.returned = TRUE]
    ELSE WrapParagraphs(Tail(paragraphs),
                        EndParagraph(WrapWords(SplitWords(Head(paragraphs)),
                                               [m EXCEPT !.currentLine = <<>>],
                                               maxLines, widthMm, typ),
                                     maxLines),
                        maxLines, widthMm, typ)

\* Lines 253-326: the lines that fit and the characters counted.
MeasureLines(s, widthMm, heightMm, typ) ==
  WrapParagraphs(SplitLines(s), MeasureStart, MaxLines(heightMm, typ), widthMm, typ)

\* calculateTextCapacityEstimate with the factor 0.85 of its earlier version.
calculateTextCapacityEstimate_Factor85(width, height, typ) ==
  LET charsPerLine == (width * 283465) \div (typ.fontSize * 42000)
      linesPerPage == (height * 26929175) \div (typ.fontSize * typ.lineHeight10 * 1000000)
  IN  (charsPerLine * linesPerPage * 85) \div 100

\* Lines 342-365: floor(width * 2.83465 / (fontSize * 0.42)) characters per
\* line, floor(height * 2.83465 * 0.95 / (fontSize * lineHeight)) lines per
\* page, and the floor of 0.92 times their product.
calculateTextCapacityEstimate(width, height, typ) ==
  LET charsPerLine == (width * 283465) \div (typ.fontSize * 42000)
      linesPerPage == (height * 26929175) \div (typ.fontSize * typ.lineHeight10 * 1000000)
  IN  (charsPerLine * linesPerPage * 92) \div 100

\* Lines 226-332: the measured capacity, or the estimate when loading the
\* font or measuring throws.
calculateTextCapacityWithRendering(s, widthMm, heightMm, typ, fontLoads) ==
  IF fontLoads THEN MeasureLines(s, widthMm, heightMm, typ).charCount
  ELSE calculateTextCapacityEstimate(widthMm, heightMm, typ)

\* ------------------------------------------------ templates and requests
\* Longest raw flow text of a render request.
MaxRenderLen == 4

ImageField(n) == [name |-> n, type |-> "image"]
TextField(n) == [name |-> n, type |-> "text"]
MvtField(n) == [name |-> n, type |-> "multiVariableText"]

FieldNames == {"logo", "content", "content_page2"}

\* The page schemas a stored template may hold: a first page with or without
\* a text field, alone or followed by a second page whose text field has the
\* same name, another name, or is missing.
FirstPages == {<<ImageField("logo"), TextField("content")>>, <<ImageField("logo")>>}
SecondPages == {<<TextField("content")>>, <<MvtField("content_page2")>>,
                <<ImageField("logo")>>}
SchemaLists == {<<f>> : f \in {<<ImageField("logo"), TextField("content")>>}}
                 \cup {<<f, g>> : f \in FirstPages, g \in SecondPages}

Templates ==
  [multiPageEnabled : BOOLEAN, secondBasePdf : BOOLEAN, schemas : SchemaLists]

\* The values one input item gives the fields.
Contexts ==
  {[n \in FieldNames |-> IF n = "content" THEN c ELSE IF n = "logo" THEN l ELSE Undefined] :
     c \in {Undefined, ANumber} \cup {Str(t) : t \in SeqsOf(RenderAlphabet, 0, MaxRenderLen)},
     l \in {Undefined, Str(<<"a">>)}}

IsTextField(field) == field.type = "text" \/ field.type = "multiVariableText"

\* Array.prototype.find on a page schema: the 1-based position of the first
\* text field, 0 when there is none.
FindTextField(pageSchema) ==
  LET hits == {k \in 1..Len(pageSchema) : IsTextField(pageSchema[k])}
  IN  IF hits = {} THEN 0 ELSE SetMin(hits)

\* obj[key], undefined for a missing key.
Get(obj, key) == IF key \in DOMAIN obj THEN obj[key] ELSE Undefined

\* obj after obj[key] = value.
Put(obj, key, value) ==
  [k \in (DOMAIN obj) \cup {key} |-> IF k = key THEN value ELSE obj[k]]

\* The empty object {}.
EmptyObject == [k \in {} |-> Undefined]

\* Names of the fields of all page schemas.
SchemaNames(schemas) ==
  UNION {{schemas[pg][k].name : k \in 1..Len(schemas[pg])} : pg \in 1..Len(schemas)}

\* Lines 625-654 for fields without content of their own: every schema field
\* the item has a value for is mapped directly, strings normalized.
BuildInputData(schemas, item) ==
  [n \in {m \in SchemaNames(schemas) : item[m] # Undefined} |->
     normalizeTextSpacing(item[n])]

\* Lines 799 and 818: { [fieldName]: chunk }
PageInputData(fieldName, chunk) == [k \in {fieldName} |-> Str(chunk)]

VARIABLES
  text,                      \* argument text
  firstPageCapacity,         \* argument firstPageCapacity
  continuationPageCapacity,  \* argument continuationPageCapacity
  remainingText,             \* local remainingText
  currentCapacity,           \* local currentCapacity
  pages,                     \* local pages; the returned list once pc = "done"
  lastRule,                  \* the branch the last iteration logged
  pc,                        \* "idle", "call", "loop" (at the while test) or "done"
  rpc,                       \* position of the POST /api/render handler
  template,                  \* the template of the request
  ctx,                       \* the input item of the request
  pdfInputData,              \* local pdfInputData
  generateMultiplePDFs,      \* local generateMultiplePDFs
  textChunks,                \* local textChunks
  jobs,                      \* the calls of generate made so far, in order
  pageIdx,                   \* loop index i of the continuation loop
  mergedPdf,                 \* pages added to mergedPdf, each named by its job
  u8,                        \* local u8
  response,                  \* the response sent, or the status 0 before it
  measuredText,              \* argument text of calculateTextCapacityWithRendering
  widthMm,                   \* argument widthMm
  heightMm,                  \* argument heightMm
  typography,                \* arguments fontSize, lineHeight, characterSpacing
  fontLoads,                 \* whether embedFont and the measuring succeed
  capacity,                  \* the value the last call returned
  lines,                     \* local lines of the last call
  secondPageTextField,       \* width and height of the text field of page 2
  previous,                  \* frame and result of the call before, if any
  cpc,                       \* "idle", "call", "returned", "plan" or "planned"
  inputs,                    \* req.body.inputs of POST /api/render
  itemNo,                    \* number of items the for loop of line 619 has taken
  pdfs,                      \* local pdfs
  finalResponse,             \* the response to the request with these inputs
  bpc,                       \* "idle", "loop", "catch" or "sent"
  now,                       \* Date.now(), in units of five minutes
  authAttempts,              \* authAttempts.get(ip): a record's number, 0 for none
  records,                   \* the record objects made so far, by number
  inFlight,                  \* requests past the rate limiter and not yet answered
  arrived,                   \* requests of the IP received so far
  rejected,                  \* requests of the IP answered 429
  blocked,                   \* when the record of the IP reached MAX_AUTH_ATTEMPTS
  editorAuthToken,           \* EDITOR_AUTH_TOKEN
  request,                   \* the request an /api/ route is handling
  effects,                   \* what the route handlers have done so far
  apiResponse,               \* status of the answer to request, 0 before it
  apc,                       \* "idle" or "received"
  requestPages,              \* req.body.pages of POST /api/compose
  composeIdx,                \* loop index i of line 931
  composedPdf,               \* pages added to mergedPdf, each named by its entry
  composeResponse,           \* the response of POST /api/compose
  cmpc                       \* "idle", "loop", "save", "catch" or "sent"

splitVars == <<text, firstPageCapacity, continuationPageCapacity,
               remainingText, currentCapacity, pages, lastRule, pc>>

renderVars == <<rpc, template, ctx, pdfInputData, generateMultiplePDFs, textChunks,
                jobs, pageIdx, mergedPdf, u8, response>>

capVars == <<measuredText, widthMm, heightMm, typography, fontLoads, capacity,
             lines, secondPageTextField, previous, cpc>>

batchVars == <<inputs, itemNo, pdfs, finalResponse, bpc>>

limiterVars == <<now, authAttempts, records, inFlight, arrived, rejected, blocked>>

authVars == <<editorAuthToken, request, effects, apiResponse, apc>>

composeVars == <<requestPages, composeIdx, composedPdf, composeResponse, cmpc>>

serviceVars == <<batchVars, limiterVars, authVars, composeVars>>

vars == <<splitVars, renderVars, capVars, serviceVars>>

\* No request with several inputs is being rendered.
BatchIdle ==
  /\ inputs = <<>>
  /\ itemNo = 0
  /\ pdfs = <<>>
  /\ finalResponse = [status |-> 0, body |-> <<>>, error |-> ""]
  /\ bpc = "idle"

\* The rate limiter has seen no request.
LimiterIdle ==
  /\ now = 0
  /\ authAttempts = 0
  /\ records = <<>>
  /\ inFlight = <<>>
  /\ arrived = 0
  /\ rejected = 0
  /\ blocked = <<>>

\* No /api/ route is handling a request.
AuthIdle ==
  /\ editorAuthToken = ""
  /\ request = [route |-> "none", scheme |-> "none", token |-> ""]
  /\ effects = {}
  /\ apiResponse = 0
  /\ apc = "idle"

\* POST /api/compose is not running.
ComposeIdle ==
  /\ requestPages = <<>>
  /\ composeIdx = 0
  /\ composedPdf = <<>>
  /\ composeResponse = [status |-> 0, body |-> <<>>, error |-> ""]
  /\ cmpc = "idle"

ServiceIdle == BatchIdle /\ LimiterIdle /\ AuthIdle /\ ComposeIdle

\* No capacity is being measured.
CapacityIdle ==
  /\ measuredText = <<>>
  /\ widthMm = 0
  /\ heightMm = 0
  /\ typography = [fontSize |-> 2, lineHeight10 |-> 10, characterSpacing |-> 0]
  /\ fontLoads = TRUE
  /\ capacity = 0
  /\ lines = <<>>
  /\ secondPageTextField = [width |-> 0, height |-> 0]
  /\ previous = <<>>
  /\ cpc = "idle"

\* The handler is not running.
RenderIdle ==
  /\ rpc = "none"
  /\ template = [multiPageEnabled |-> FALSE, secondBasePdf |-> FALSE, schemas |-> <<>>]
  /\ ctx = EmptyObject
  /\ pdfInputData = EmptyObject
  /\ generateMultiplePDFs = FALSE
  /\ textChunks = <<>>
  /\ jobs = <<>>
  /\ pageIdx = 0
  /\ mergedPdf = <<>>
  /\ u8 = <<>>
  /\ response = [status |-> 0, body |-> <<>>, error |-> ""]

\* The texts split is called with: every text of up to MaxShort characters
\* over the full alphabet and every text of up to MaxLen characters over the
\* core alphabet.
Texts == SeqsOf(FullAlphabet, 0, MaxShort) \cup SeqsOf(CoreAlphabet, MaxShort + 1, MaxLen)

SplitInit ==
  /\ text \in Texts
  /\ firstPageCapacity \in 0..MaxCap
  /\ continuationPageCapacity \in 0..MaxContCap
  /\ remainingText = <<>>
  /\ currentCapacity = 0
  /\ pages = <<>>
  /\ lastRule = "none"
  /\ pc = "call"
  /\ RenderIdle
  /\ CapacityIdle
  /\ ServiceIdle

\* SplitEntry returning the trimmed text when it fits.
SplitEntry_Trimmed ==
  /\ pc = "call"
  /\ IF text = <<>> \/ Len(text) <= firstPageCapacity
       THEN /\ pages' = <<Trim(text)>>
            /\ pc' = "done"
            /\ UNCHANGED <<remainingText, currentCapacity>>
       ELSE /\ pages' = <<>>
            /\ remainingText' = text
            /\ currentCapacity' = firstPageCapacity
            /\ pc' = "loop"
  /\ lastRule' = "none"
  /\ UNCHANGED <<text, firstPageCapacity, continuationPageCapacity>>
  /\ UNCHANGED <<renderVars, capVars, serviceVars>>

\* Lines 375-386: the early returns and the loop's initialisation.
SplitEntry ==
  /\ pc = "call"
  /\ IF text = <<>> \/ Len(text) <= firstPageCapacity
       THEN /\ pages' = <<text>>
            /\ pc' = "done"
            /\ UNCHANGED <<remainingText, currentCapacity>>
       ELSE /\ pages' = <<>>
            /\ remainingText' = text
            /\ currentCapacity' = firstPageCapacity
            /\ pc' = "loop"
  /\ lastRule' = "none"
  /\ UNCHANGED <<text, firstPageCapacity, continuationPageCapacity>>
  /\ UNCHANGED <<renderVars, capVars, serviceVars>>

\* Lines 388-443: the while test and one pass through the loop body.
SplitIter ==
  /\ pc = "loop"
  /\ Len(pages) < MaxPages
  /\ IF Len(remainingText) = 0
       THEN /\ pc' = "done"
            /\ UNCHANGED <<remainingText, currentCapacity, pages, lastRule>>
       ELSE IF Len(remainingText) <= currentCapacity
         THEN /\ pages' = Append(pages, remainingText)
              /\ lastRule' = "fits"
              /\ pc' = "done"
              /\ UNCHANGED <<remainingText, currentCapacity>>
         ELSE /\ pages' = Append(pages, ChunkOf(remainingText, currentCapacity))
              /\ remainingText' = RestOf(remainingText, currentCapacity)
              /\ lastRule' = BreakRule(remainingText, currentCapacity)
              /\ currentCapacity' = continuationPageCapacity
              /\ pc' = "loop"
  /\ UNCHANGED <<text, firstPageCapacity, continuationPageCapacity>>
  /\ UNCHANGED <<renderVars, capVars, serviceVars>>

SplitNext == SplitEntry \/ SplitIter

SplitSpec == SplitInit /\ [][SplitNext]_vars

\* ------------------------------------------------ POST /api/render
\* Name of the first text field of the first page schema (lines 707, 711, 767).
FlowFieldName(schemas) == schemas[1][FindTextField(schemas[1])].name

\* Line 700: the template asks for the multi-page layout.
MultiPageLayout(tpl) ==
  tpl.multiPageEnabled /\ Len(tpl.schemas) >= 2 /\ tpl.secondBasePdf

\* BothTextFields looking at the first page only.
BothTextFields_FirstOnly(schemas) == FindTextField(schemas[1]) # 0

\* Line 710: both pages have a text field.
BothTextFields(schemas) ==
  FindTextField(schemas[1]) # 0 /\ FindTextField(schemas[2]) # 0

\* Line 715: fieldText && typeof fieldText === 'string'
HasFlowText(fieldText) == fieldText.kind = "string" /\ fieldText.chars # <<>>

\* ExceedsFirstPage splitting a text that fills the first page exactly.
ExceedsFirstPage_AtCapacity(fieldText, cap) == Len(fieldText.chars) >= cap

\* Line 741: fieldText.length > firstPageCapacity
ExceedsFirstPage(fieldText, cap) == Len(fieldText.chars) > cap

\* mergedPdf.addPage putting the page in front.
AddPage_AtFront(merged, page) == <<page>> \o merged

\* Lines 812 and 831: mergedPdf.addPage(page)
AddPage(merged, page) == Append(merged, page)

\* The call of generate for page 1 (lines 799-809).
Page1Job(fieldName, chunks) ==
  [basePdf |-> "first", schema |-> 0, inputs |-> PageInputData(fieldName, chunks[1])]

\* ContinuationJob taking the chunk of the page before.
ContinuationJob_PreviousChunk(fieldName, chunks, i) ==
  [basePdf |-> "second", schema |-> 1, inputs |-> PageInputData(fieldName, chunks[i])]

\* The call of generate for continuation page i, i >= 1 0-based (lines 818-828).
ContinuationJob(fieldName, chunks, i) ==
  [basePdf |-> "second", schema |-> 1, inputs |-> PageInputData(fieldName, chunks[i + 1])]

\* The call of generate of the single-page branch (lines 851-866).
SingleJob(inputData) == [basePdf |-> "first", schema |-> 0, inputs |-> inputData]

RenderInit ==
  /\ template \in Templates
  /\ ctx \in Contexts
  /\ rpc = "build"
  /\ pdfInputData = EmptyObject
  /\ generateMultiplePDFs = FALSE
  /\ textChunks = <<>>
  /\ jobs = <<>>
  /\ pageIdx = 0
  /\ mergedPdf = <<>>
  /\ u8 = <<>>
  /\ response = [status |-> 0, body |-> <<>>, error |-> ""]
  /\ text = <<>>
  /\ firstPageCapacity = 0
  /\ continuationPageCapacity = 0
  /\ remainingText = <<>>
  /\ currentCapacity = 0
  /\ pages = <<>>
  /\ lastRule = "none"
  /\ pc = "idle"
  /\ CapacityIdle
  /\ ServiceIdle

\* Lines 625-656: pdfInputData is built from the page schemas and the item.
BuildInputs ==
  /\ rpc = "build"
  /\ pdfInputData' = BuildInputData(template.schemas, ctx)
  /\ rpc' = "plan"
  /\ UNCHANGED <<template, ctx, generateMultiplePDFs, textChunks, jobs, pageIdx,
                 mergedPdf, u8, response>>
  /\ UNCHANGED <<splitVars, capVars, serviceVars>>

\* Lines 696-752: the multi-page test, the two capacities (any value the
\* measurement may return) and the decision to split.
PlanPages ==
  /\ rpc = "plan"
  /\ LET schemas == template.schemas
     IN  IF MultiPageLayout(template) /\ BothTextFields(schemas)
           THEN LET fieldName == FlowFieldName(schemas)
                    fieldText == normalizeTextSpacing(Get(pdfInputData, fieldName))
                IN  /\ pdfInputData' = Put(pdfInputData, fieldName, fieldText)
                    /\ IF HasFlowText(fieldText)
                         THEN \E c1 \in 0..MaxCap, c2 \in 0..MaxContCap :
                                /\ firstPageCapacity' = c1
                                /\ continuationPageCapacity' = c2
                                /\ IF ExceedsFirstPage(fieldText, c1)
                                     THEN /\ text' = fieldText.chars
                                          /\ pc' = "call"
                                          /\ rpc' = "split"
                                     ELSE /\ rpc' = "single"
                                          /\ UNCHANGED <<text, pc>>
                         ELSE /\ rpc' = "single"
                              /\ UNCHANGED <<text, pc, firstPageCapacity,
                                             continuationPageCapacity>>
           ELSE /\ rpc' = "single"
                /\ UNCHANGED <<pdfInputData, text, pc, firstPageCapacity,
                               continuationPageCapacity>>
  /\ UNCHANGED <<remainingText, currentCapacity, pages, lastRule>>
  /\ UNCHANGED <<template, ctx, generateMultiplePDFs, textChunks, jobs, pageIdx,
                 mergedPdf, u8, response>>
  /\ UNCHANGED <<capVars, serviceVars>>

\* Lines 742-744: split has returned.
SplitReturn ==
  /\ rpc = "split"
  /\ pc = "done"
  /\ textChunks' = pages
  /\ generateMultiplePDFs' = TRUE
  /\ rpc' = "page1"
  /\ UNCHANGED <<template, ctx, pdfInputData, jobs, pageIdx, mergedPdf, u8, response>>
  /\ UNCHANGED <<splitVars, capVars, serviceVars>>

\* Lines 797-813: page 1 is generated and added to mergedPdf, or generate or
\* PDFDocument.load throws.
GeneratePage1 ==
  /\ rpc = "page1"
  /\ jobs' = Append(jobs, Page1Job(FlowFieldName(template.schemas), textChunks))
  /\ \E ok \in BOOLEAN :
       IF ok THEN /\ mergedPdf' = AddPage(mergedPdf, Len(jobs'))
                  /\ pageIdx' = 1
                  /\ rpc' = "cont"
             ELSE /\ rpc' = "catch"
                  /\ UNCHANGED <<mergedPdf, pageIdx>>
  /\ UNCHANGED <<template, ctx, pdfInputData, generateMultiplePDFs, textChunks, u8, response>>
  /\ UNCHANGED <<splitVars, capVars, serviceVars>>

\* Lines 816-833: one pass of the continuation loop.
GenerateContinuation ==
  /\ rpc = "cont"
  /\ pageIdx < Len(textChunks)
  /\ jobs' = Append(jobs, ContinuationJob(FlowFieldName(template.schemas), textChunks, pageIdx))
  /\ \E ok \in BOOLEAN :
       IF ok THEN /\ mergedPdf' = AddPage(mergedPdf, Len(jobs'))
                  /\ pageIdx' = pageIdx + 1
                  /\ rpc' = "cont"
             ELSE /\ rpc' = "catch"
                  /\ UNCHANGED <<mergedPdf, pageIdx>>
  /\ UNCHANGED <<template, ctx, pdfInputData, generateMultiplePDFs, textChunks, u8, response>>
  /\ UNCHANGED <<splitVars, capVars, serviceVars>>

\* Lines 816 and 835: the loop ends and mergedPdf is saved.
SaveMerged ==
  /\ rpc = "cont"
  /\ pageIdx >= Len(textChunks)
  /\ u8' = mergedPdf
  /\ rpc' = "respond"
  /\ UNCHANGED <<template, ctx, pdfInputData, generateMultiplePDFs, textChunks, jobs,
                 pageIdx, mergedPdf, response>>
  /\ UNCHANGED <<splitVars, capVars, serviceVars>>

\* Lines 838-868: the single-page branch.
GenerateSingle ==
  /\ rpc = "single"
  /\ jobs' = Append(jobs, SingleJob(pdfInputData))
  /\ \E ok \in BOOLEAN :
       IF ok THEN /\ u8' = <<Len(jobs')>>
                  /\ rpc' = "respond"
             ELSE /\ rpc' = "catch"
                  /\ UNCHANGED u8
  /\ UNCHANGED <<template, ctx, pdfInputData, generateMultiplePDFs, textChunks, pageIdx,
                 mergedPdf, response>>
  /\ UNCHANGED <<splitVars, capVars, serviceVars>>

\* Lines 870-887: the document is sent.
Respond ==
  /\ rpc = "respond"
  /\ response' = [status |-> 200, body |-> u8, error |-> ""]
  /\ rpc' = "sent"
  /\ UNCHANGED <<template, ctx, pdfInputData, generateMultiplePDFs, textChunks, jobs,
                 pageIdx, mergedPdf, u8>>
  /\ UNCHANGED <<splitVars, capVars, serviceVars>>

\* RenderError answering with the pages merged so far.
RenderError_SendsPartial ==
  /\ rpc = "catch"
  /\ response' = [status |-> 200, body |-> mergedPdf, error |-> ""]
  /\ rpc' = "sent"
  /\ UNCHANGED <<template, ctx, pdfInputData, generateMultiplePDFs, textChunks, jobs,
                 pageIdx, mergedPdf, u8>>
  /\ UNCHANGED <<splitVars, capVars, serviceVars>>

\* Lines 888-896: the catch block.
RenderError ==
  /\ rpc = "catch"
  /\ response' = [status |-> 500, body |-> <<>>, error |-> "render error"]
  /\ rpc' = "sent"
  /\ UNCHANGED <<template, ctx, pdfInputData, generateMultiplePDFs, textChunks, jobs,
                 pageIdx, mergedPdf, u8>>
  /\ UNCHANGED <<splitVars, capVars, serviceVars>>

RenderNext ==
  \/ BuildInputs
  \/ PlanPages
  \/ SplitEntry
  \/ SplitIter
  \/ SplitReturn
  \/ GeneratePage1
  \/ GenerateContinuation
  \/ SaveMerged
  \/ GenerateSingle
  \/ Respond
  \/ RenderError

RenderSpec == RenderInit /\ [][RenderNext]_vars

\* ------------------------------------------------ measuring a text field
\* The split is not running.
SplitIdle ==
  /\ text = <<>>
  /\ firstPageCapacity = 0
  /\ continuationPageCapacity = 0
  /\ remainingText = <<>>
  /\ currentCapacity = 0
  /\ pages = <<>>
  /\ lastRule = "none"
  /\ pc = "idle"

\* A text field is about to be measured: any text, any frame from one
\* millimetre below zero up, any typography, a font that loads or not.
CapacityInit ==
  /\ measuredText \in SeqsOf(MeasureAlphabet, 0, MaxMeasureLen)
  /\ widthMm \in -1..MaxWidthMm
  /\ heightMm \in -1..MaxHeightMm
  /\ typography \in Typographies
  /\ fontLoads \in BOOLEAN
  /\ capacity = 0
  /\ lines = <<>>
  /\ secondPageTextField = [width |-> 0, height |-> 0]
  /\ previous = <<>>
  /\ cpc = "call"
  /\ SplitIdle
  /\ RenderIdle
  /\ ServiceIdle

\* Lines 720-728: one call of calculateTextCapacityWithRendering.
Measure ==
  /\ cpc = "call"
  /\ capacity' = calculateTextCapacityWithRendering(measuredText, widthMm, heightMm,
                                                     typography, fontLoads)
  /\ lines' = IF fontLoads
                THEN MeasureLines(measuredText, widthMm, heightMm, typography).lines
                ELSE <<>>
  /\ cpc' = "returned"
  /\ UNCHANGED <<measuredText, widthMm, heightMm, typography, fontLoads,
                 secondPageTextField, previous>>
  /\ UNCHANGED <<splitVars, renderVars, serviceVars>>

\* Lines 730-738: the same text is measured for the next text field, whose
\* frame is one millimetre wider.
NextFieldWider ==
  /\ cpc = "returned"
  /\ widthMm < MaxWidthMm
  /\ previous' = <<[widthMm |-> widthMm, heightMm |-> heightMm, capacity |-> capacity]>>
  /\ widthMm' = widthMm + 1
  /\ cpc' = "call"
  /\ UNCHANGED <<measuredText, heightMm, typography, fontLoads, capacity, lines,
                 secondPageTextField>>
  /\ UNCHANGED <<splitVars, renderVars, serviceVars>>

\* Lines 730-738: the same text is measured for the next text field, whose
\* frame is one millimetre higher.
NextFieldHigher ==
  /\ cpc = "returned"
  /\ heightMm < MaxHeightMm
  /\ previous' = <<[widthMm |-> widthMm, heightMm |-> heightMm, capacity |-> capacity]>>
  /\ heightMm' = heightMm + 1
  /\ cpc' = "call"
  /\ UNCHANGED <<measuredText, widthMm, typography, fontLoads, capacity, lines,
                 secondPageTextField>>
  /\ UNCHANGED <<splitVars, renderVars, serviceVars>>

CapacityNext == Measure \/ NextFieldWider \/ NextFieldHigher

CapacitySpec == CapacityInit /\ [][CapacityNext]_vars

\* ------------------------------------------------ measuring and splitting
\* Longest raw flow text that is measured and then split.
MaxFlowLen == 6

\* The flow texts the handler measures: line 712 has normalized them.
FlowTexts ==
  {normalizeTextSpacing(Str(t)).chars : t \in SeqsOf(MeasureAlphabet, 0, MaxFlowLen)}

\* The flow text of a request is about to be measured for the text fields of
\* page 1 and page 2, which share their typography.
PlanInit ==
  /\ measuredText \in FlowTexts
  /\ widthMm \in 0..MaxWidthMm
  /\ heightMm \in 3..MaxHeightMm
  /\ secondPageTextField \in [width : 0..MaxWidthMm, height : 3..MaxHeightMm]
  /\ typography \in Typographies
  /\ fontLoads \in BOOLEAN
  /\ capacity = 0
  /\ lines = <<>>
  /\ previous = <<>>
  /\ cpc = "plan"
  /\ SplitIdle
  /\ RenderIdle
  /\ ServiceIdle

\* Lines 715-748: both capacities are measured on the whole flow text and the
\* text is handed to splitTextIntelligently when it exceeds the first.
MeasureFields ==
  /\ cpc = "plan"
  /\ IF HasFlowText(Str(measuredText))
       THEN /\ firstPageCapacity' =
                 calculateTextCapacityWithRendering(measuredText, widthMm, heightMm,
                                                    typography, fontLoads)
            /\ continuationPageCapacity' =
                 calculateTextCapacityWithRendering(measuredText, secondPageTextField.width,
                                                    secondPageTextField.height,
                                                    typography, fontLoads)
            /\ IF ExceedsFirstPage(Str(measuredText), firstPageCapacity')
                 THEN text' = measuredText /\ pc' = "call"
                 ELSE UNCHANGED <<text, pc>>
       ELSE UNCHANGED <<text, pc, firstPageCapacity, continuationPageCapacity>>
  /\ cpc' = "planned"
  /\ UNCHANGED <<remainingText, currentCapacity, pages, lastRule>>
  /\ UNCHANGED <<measuredText, widthMm, heightMm, typography, fontLoads, capacity, lines,
                 secondPageTextField, previous>>
  /\ UNCHANGED <<renderVars, serviceVars>>

PlanNext == MeasureFields \/ SplitEntry \/ SplitIter

PlanSpec == PlanInit /\ [][PlanNext]_vars

\* ------------------------------------------------ properties of the render
\* The values a call of generate is given.
InputValues(job) == {job.inputs[k] : k \in DOMAIN job.inputs}

\* C9: in a split render job 0 gets the first base PDF, schemas[0] and chunk
\* 0, every job i >= 1 gets _secondBasePdf, schemas[1] and chunk i, and a
\* render that answers 200 has made exactly one job per chunk.
C9_JobsFollowChunks ==
  generateMultiplePDFs =>
    /\ Len(jobs) <= Len(textChunks)
    /\ \A k \in 1..Len(jobs) :
         /\ jobs[k].basePdf = IF k = 1 THEN "first" ELSE "second"
         /\ jobs[k].schema = IF k = 1 THEN 0 ELSE 1
         /\ InputValues(jobs[k]) = {Str(textChunks[k])}
    /\ response.status = 200 => Len(jobs) = Len(textChunks)

C9_Witness ==
  /\ generateMultiplePDFs
  /\ response.status = 200
  /\ Len(textChunks) >= 3
  /\ Len(jobs) = Len(textChunks)
  /\ textChunks[2] # textChunks[3]
  /\ textChunks[1] # textChunks[2]

\* C10: in a split render the inputs of every continuation job i >= 1 hold
\* chunk i under the key flowFieldName + "_page" + (i + 1).
C10_ContinuationKeyRenamed ==
  generateMultiplePDFs =>
    \A k \in 2..Len(jobs) :
      jobs[k].inputs =
        PageInputData(FlowFieldName(template.schemas) \o "_page" \o ToString(k),
                      textChunks[k])

\* Names of the fields of the first page schema.
FirstPageNames == {template.schemas[1][k].name : k \in 1..Len(template.schemas[1])}

\* The handler is past the planning of lines 696-752.
Planned == rpc \notin {"none", "build", "plan"}

\* The request asks for the multi-page layout and both pages have a text field.
FlowLayout == MultiPageLayout(template) /\ BothTextFields(template.schemas)

\* The request asks for the multi-page layout and the first or the second
\* page has no text field.
LayoutLacksTextField ==
  /\ MultiPageLayout(template)
  /\ \E pg \in 1..2 : \A k \in 1..Len(template.schemas[pg]) :
       ~IsTextField(template.schemas[pg][k])

\* C11: in a split render the inputs of job 0 hold, unchanged, every value
\* the request resolved for a non-flow field of the first page.
C11_Page1KeepsOtherFields ==
  generateMultiplePDFs /\ Len(jobs) >= 1 =>
    \A n \in (DOMAIN pdfInputData) \cap FirstPageNames :
      n # FlowFieldName(template.schemas) =>
        Get(jobs[1].inputs, n) = pdfInputData[n]

\* C12: when the flow text is a string no longer than the first-page
\* capacity (the empty string included), split is not called and the only
\* call of generate uses the first base PDF and schemas[0] with the flow field
\* set to the whole text and every other resolved value passed through; a
\* render that answers 200 holds the page of that one job.
C12_FittingTextOneJob ==
  (/\ Planned
   /\ FlowLayout
   /\ Get(pdfInputData, FlowFieldName(template.schemas)).kind = "string"
   /\ Len(Get(pdfInputData, FlowFieldName(template.schemas)).chars) <= firstPageCapacity)
  => /\ pc = "idle"
     /\ rpc # "split"
     /\ ~generateMultiplePDFs
     /\ Len(jobs) <= 1
     /\ \A k \in 1..Len(jobs) :
          /\ jobs[k].basePdf = "first"
          /\ jobs[k].schema = 0
          /\ \A n \in SchemaNames(template.schemas) :
               ctx[n] # Undefined =>
                 Get(jobs[k].inputs, n) = normalizeTextSpacing(ctx[n])
     /\ response.status = 200 => Len(jobs) = 1 /\ response.body = <<1>>

C12_Witness ==
  /\ FlowLayout
  /\ response.status = 200
  /\ ~generateMultiplePDFs
  /\ Len(jobs) = 1
  /\ Get(jobs[1].inputs, "content").kind = "string"
  /\ Len(Get(jobs[1].inputs, "content").chars) = firstPageCapacity
  /\ firstPageCapacity >= 2
  /\ Get(jobs[1].inputs, "logo") = Str(<<"a">>)

\* C13: the document of a split render that answers 200 holds exactly one
\* page per chunk, page k being the page of job k, and the pages merged so
\* far are always the pages of the first jobs in their order.
C13_PagesInPlanOrder ==
  generateMultiplePDFs =>
    /\ mergedPdf = [k \in 1..Len(mergedPdf) |-> k]
    /\ response.status = 200 =>
         response.body = [k \in 1..Len(textChunks) |-> k]

C13_Witness ==
  /\ generateMultiplePDFs
  /\ response.status = 200
  /\ Len(textChunks) >= 3
  /\ response.body = <<1, 2, 3>>

\* C14: when generating or loading a page of a split render has thrown,
\* nothing has been sent yet, the next step answers 500 with the error kind
\* "render error" and no document, no further call of generate is made, and
\* nothing happens after the answer; a split render that answers 200 holds
\* one page per chunk.
C14_FailureAnswers500 ==
  [][/\ (rpc = "catch" /\ generateMultiplePDFs) =>
          /\ response.status = 0
          /\ response' = [status |-> 500, body |-> <<>>, error |-> "render error"]
          /\ jobs' = jobs
          /\ rpc' = "sent"
     /\ rpc = "sent" => vars' = vars
     /\ (generateMultiplePDFs /\ response'.status = 200) =>
          Len(response'.body) = Len(textChunks)]_vars

C14_Witness ==
  /\ generateMultiplePDFs
  /\ rpc = "sent"
  /\ response.status = 500
  /\ response.error = "render error"
  /\ response.body = <<>>
  /\ Len(mergedPdf) >= 1
  /\ Len(jobs) = Len(mergedPdf) + 1

\* C15 as claimed: when the multi-page layout is asked for and a page has no
\* text field, no call of generate is made and the answer carries the error
\* kind MissingFlowField.
C15_MissingFlowFieldFails ==
  LayoutLacksTextField =>
    /\ jobs = <<>>
    /\ rpc = "sent" => response.status # 200 /\ response.error = "MissingFlowField"

\* C15 amended: when the multi-page layout is asked for and a page has no
\* text field, planning does not fail: no capacity is measured, split is not
\* called, and the only call of generate uses the first base PDF and
\* schemas[0] with every resolved value; the answer is 200 with that page
\* unless generate throws.
C15_MissingFlowFieldSinglePage ==
  (Planned /\ LayoutLacksTextField) =>
    /\ pc = "idle"
    /\ rpc # "split"
    /\ firstPageCapacity = 0 /\ continuationPageCapacity = 0
    /\ ~generateMultiplePDFs
    /\ Len(jobs) <= 1
    /\ \A k \in 1..Len(jobs) :
         jobs[k] = SingleJob(BuildInputData(template.schemas, ctx))
    /\ response.status = 200 => Len(jobs) = 1 /\ response.body = <<1>>
    /\ response.status = 500 => Len(jobs) = 1 /\ response.error = "render error"

C15_Witness ==
  /\ MultiPageLayout(template)
  /\ FindTextField(template.schemas[1]) # 0
  /\ FindTextField(template.schemas[2]) = 0
  /\ response.status = 200
  /\ Len(jobs) = 1
  /\ Get(jobs[1].inputs, "content").kind = "string"
  /\ Len(Get(jobs[1].inputs, "content").chars) >= 3

C17_CapacityMonotone ==
  (cpc = "returned" /\ fontLoads /\ previous # <<>>) =>
    /\ previous[1].widthMm <= widthMm
    /\ previous[1].heightMm <= heightMm
    /\ previous[1].capacity <= capacity

C17_Witness ==
  /\ cpc = "returned"
  /\ fontLoads
  /\ previous # <<>>
  /\ previous[1].widthMm < widthMm
  /\ 0 < previous[1].capacity
  /\ previous[1].capacity < capacity
  /\ capacity < Len(measuredText)

\* C18: with the font loaded, for a frame whose width or height is zero or
\* negative the capacity returned is 0, whatever the text, here a text every
\* line of which holds a word.
C18_DegenerateFrameZero ==
  (/\ cpc = "returned"
   /\ fontLoads
   /\ \A k \in 1..Len(SplitLines(measuredText)) : Trim(SplitLines(measuredText)[k]) # <<>>
   /\ (widthMm <= 0 \/ heightMm <= 0))
  => capacity = 0

\* C19: with the font loaded, for the empty text the capacity returned is 0,
\* whatever the frame.
C19_EmptyTextZero ==
  (cpc = "returned" /\ fontLoads /\ measuredText = <<>>) => capacity = 0

\* C20: when the font does not load the call still returns, with the
\* largest integer not above 0.92 * charsPerLine * linesPerPage, where
\* charsPerLine is the largest integer not above widthMm * 2.83465 /
\* (fontSize * 0.42) and linesPerPage the largest integer not above
\* heightMm * 2.83465 * 0.95 / (fontSize * lineHeight); the text is split
\* exactly when it is longer than that product.
C20_FallbackEstimate ==
  (cpc = "returned" /\ ~fontLoads) =>
    \E charsPerLine \in -4..(5 * MaxWidthMm), linesPerPage \in -2..(2 * MaxHeightMm) :
      /\ charsPerLine * typography.fontSize * 42000 <= widthMm * 283465
      /\ widthMm * 283465 < (charsPerLine + 1) * typography.fontSize * 42000
      /\ linesPerPage * typography.fontSize * typography.lineHeight10 * 1000000
           <= heightMm * 26929175
      /\ heightMm * 26929175
           < (linesPerPage + 1) * typography.fontSize * typography.lineHeight10 * 1000000
      /\ 100 * capacity <= 92 * charsPerLine * linesPerPage
      /\ 92 * charsPerLine * linesPerPage < 100 * (capacity + 1)
      /\ ExceedsFirstPage(Str(measuredText), capacity)
           <=> 100 * Len(measuredText) > 92 * charsPerLine * linesPerPage

C20_Witness ==
  /\ cpc = "returned"
  /\ ~fontLoads
  /\ capacity > 0
  /\ capacity # MeasureLines(measuredText, widthMm, heightMm, typography).charCount
  /\ Len(measuredText) > capacity

\* ------------------------------------------------ properties of the split
\* Concatenation of a list of strings, in order.
RECURSIVE JoinAll(_)
JoinAll(ps) == IF ps = <<>> THEN <<>> ELSE Head(ps) \o JoinAll(Tail(ps))

\* s with every whitespace character deleted.
StripWs(s) == SelectSeq(s, LAMBDA c : ~IsWs(c))

\* Capacity of the page chunk number i (1-based) is destined for.
CapacityOfPage(i) == IF i = 1 THEN firstPageCapacity ELSE continuationPageCapacity

\* C1: splitTextIntelligently terminates for all capacities >= 0. The loop is
\* deterministic in (remainingText, currentCapacity), so it terminates exactly
\* when no pass that stays in the loop leaves both unchanged.
C1_SplitTerminates ==
  [][(pc = "loop" /\ pc' = "loop")
       => <<remainingText', currentCapacity'>> # <<remainingText, currentCapacity>>]_vars

\* C2: when split has returned, the chunks concatenated in order, whitespace
\* deleted, are the text with its whitespace deleted.
C2_Reconstruction ==
  pc = "done" => StripWs(JoinAll(pages)) = StripWs(text)

C2_Witness ==
  /\ pc = "done"
  /\ Len(pages) >= 3
  /\ lastRule = "fits"
  /\ \E i \in 1..Len(text) : IsWs(text[i])
  /\ \E i \in 1..Len(text) : ~IsWs(text[i])

\* C3: every chunk is no longer than the capacity of the page it goes to.
C3_ChunksWithinCapacity ==
  \A i \in 1..Len(pages) : Len(pages[i]) <= CapacityOfPage(i)

\* C4: a text no longer than firstPageCapacity is returned as the single
\* chunk [text], untrimmed.
C4_NoSplit ==
  (pc = "done" /\ Len(text) <= firstPageCapacity) => pages = <<text>>

C4_Witness ==
  /\ pc = "done"
  /\ Len(text) <= firstPageCapacity
  /\ Len(text) >= 2
  /\ IsWs(text[1])
  /\ IsWs(text[Len(text)])
  /\ pages = <<text>>

\* C5: every chunk is non-empty unless the text is empty.
C5_ChunksNonEmpty ==
  text # <<>> => \A i \in 1..Len(pages) : pages[i] # <<>>

\* A double newline starts at 0-based position p of s.
IsParagraphAt(s, p) == p + 2 <= Len(s) /\ s[p + 1] = NL /\ s[p + 2] = NL

\* A sentence end (punctuation mark and space) starts at position p of s.
IsSentenceAt(s, p) == p + 2 <= Len(s) /\ s[p + 1] \in {".", "!", "?"} /\ s[p + 2] = SP

\* A space is at position p of s.
IsSpaceAt(s, p) == p + 1 <= Len(s) /\ s[p + 1] = SP

\* The last positions at or before cap, as sets (empty when there is none).
ParagraphsUpTo(s, cap) == {p \in 0..cap : IsParagraphAt(s, p)}
SentencesUpTo(s, cap) == {p \in 0..cap : IsSentenceAt(s, p)}
SpacesUpTo(s, cap) == {p \in 0..cap : IsSpaceAt(s, p)}

ParagraphQualifies(s, cap) ==
  ParagraphsUpTo(s, cap) # {} /\ 2 * SetMax(ParagraphsUpTo(s, cap)) > cap
SentenceQualifies(s, cap) ==
  SentencesUpTo(s, cap) # {} /\ 10 * SetMax(SentencesUpTo(s, cap)) > 6 * cap
WordQualifies(s, cap) ==
  SpacesUpTo(s, cap) # {} /\ 10 * SetMax(SpacesUpTo(s, cap)) > 7 * cap

\* The pass of the loop cuts remainingText just before position b.
CutsAt(b) ==
  /\ pages' = Append(pages, Trim(SubSeq(remainingText, 1, b)))
  /\ remainingText' = Trim(SubSeq(remainingText, b + 1, Len(remainingText)))

Overflowing == pc = "loop" /\ Len(remainingText) > currentCapacity

\* C6: when the remaining text exceeds the capacity and its last double
\* newline at or before capacity is at a position > capacity / 2, the page is
\* cut just after the two newlines, whatever sentence or word boundary follows.
C6_ParagraphPrecedence ==
  [][(Overflowing /\ ParagraphQualifies(remainingText, currentCapacity))
       => CutsAt(SetMax(ParagraphsUpTo(remainingText, currentCapacity)) + 2)]_vars

C6_Witness ==
  /\ lastRule = "paragraph"
  /\ Len(pages) = 1
  /\ ParagraphQualifies(text, firstPageCapacity)
  /\ SentenceQualifies(text, firstPageCapacity)
  /\ SetMax(SentencesUpTo(text, firstPageCapacity))
       > SetMax(ParagraphsUpTo(text, firstPageCapacity))
  /\ pages[1] = Trim(SubSeq(text, 1, SetMax(ParagraphsUpTo(text, firstPageCapacity))))

\* The same with a later word boundary.
C6_WitnessWord ==
  /\ lastRule = "paragraph"
  /\ Len(pages) = 1
  /\ ParagraphQualifies(text, firstPageCapacity)
  /\ WordQualifies(text, firstPageCapacity)
  /\ SetMax(SpacesUpTo(text, firstPageCapacity))
       > SetMax(ParagraphsUpTo(text, firstPageCapacity))

\* C7: with no qualifying paragraph break, a sentence end at a position
\* > 0.6 * capacity ends the chunk with its punctuation mark and the remainder
\* starts after the space; otherwise a space at a position > 0.7 * capacity
\* is the cut; otherwise the cut is exactly at capacity.
C7_SentenceThenWordThenHard ==
  [][(Overflowing /\ ~ParagraphQualifies(remainingText, currentCapacity))
       => IF SentenceQualifies(remainingText, currentCapacity)
            THEN LET sb == SetMax(SentencesUpTo(remainingText, currentCapacity))
                 IN  /\ CutsAt(sb + 2)
                     /\ pages'[Len(pages')] # <<>>
                     /\ pages'[Len(pages')][Len(pages'[Len(pages')])] = remainingText[sb + 1]
          ELSE IF WordQualifies(remainingText, currentCapacity)
            THEN CutsAt(SetMax(SpacesUpTo(remainingText, currentCapacity)) + 1)
          ELSE CutsAt(currentCapacity)]_vars

C7_Witness ==
  /\ lastRule = "sentence"
  /\ Len(pages) = 1
  /\ LastIndexOf(text, <<".", SP>>, firstPageCapacity) >= 0
  /\ LastIndexOf(text, <<"?", SP>>, firstPageCapacity)
       > LastIndexOf(text, <<".", SP>>, firstPageCapacity)
  /\ pages[1][Len(pages[1])] = "?"

C7_WitnessWord ==
  /\ lastRule = "word"
  /\ Len(pages) = 1
  /\ SentencesUpTo(text, firstPageCapacity) # {}

\* C8: a text without whitespace, longer than firstPageCapacity, with both
\* capacities >= 1: every chunk but the last is exactly as long as its
\* page's capacity and none is longer.
C8_HardBreak ==
  (/\ \A i \in 1..Len(text) : ~IsWs(text[i])
   /\ Len(text) > firstPageCapacity
   /\ firstPageCapacity >= 1
   /\ continuationPageCapacity >= 1)
  => \A i \in 1..Len(pages) :
       /\ Len(pages[i]) <= CapacityOfPage(i)
       /\ (i < Len(pages) \/ pc = "loop") => Len(pages[i]) = CapacityOfPage(i)

C8_Witness ==
  /\ pc = "done"
  /\ \A i \in 1..Len(text) : ~IsWs(text[i])
  /\ firstPageCapacity >= 1
  /\ continuationPageCapacity >= 1
  /\ firstPageCapacity # continuationPageCapacity
  /\ Len(pages) >= 3
  /\ Len(pages[Len(pages)]) < continuationPageCapacity

\* ------------------------------------------------ properties of the flow text
\* C21: when the flow text supplied in the inputs has a blank line between
\* 50% and 100% of the first-page capacity and the text is split, the first
\* pass of the split takes the paragraph branch and page 1 ends at that
\* blank line.
C21_ParagraphBreakInRender ==
  (/\ rpc = "split"
   /\ Len(pages) = 1
   /\ ctx[FlowFieldName(template.schemas)].kind = "string"
   /\ ParagraphQualifies(ctx[FlowFieldName(template.schemas)].chars, firstPageCapacity))
  => /\ lastRule = "paragraph"
     /\ pages[1] = Trim(SubSeq(ctx[FlowFieldName(template.schemas)].chars, 1,
                               SetMax(ParagraphsUpTo(ctx[FlowFieldName(template.schemas)].chars,
                                                     firstPageCapacity))))

\* Sum of length + 1 over a list of lines.
RECURSIVE CountedChars(_)
CountedChars(ls) == IF ls = <<>> THEN 0 ELSE Len(Head(ls)) + 1 + CountedChars(Tail(ls))

\* C26: with the font loaded, at most maxLines lines are committed, maxLines
\* being the largest integer not above (heightMm * 2.83465 - 4 * 2.83465) /
\* (fontSize * lineHeight); the capacity returned is the sum of length + 1
\* over exactly the committed lines, a blank paragraph being a line of
\* length 0; and with maxLines <= 0 no line is committed and the result is 0.
C26_LinesWithinBudget ==
  (cpc = "returned" /\ fontLoads) =>
    \E maxLines \in -8..MaxHeightMm :
      /\ maxLines * typography.fontSize * typography.lineHeight10 * 10000
           <= (heightMm - 4) * 283465
      /\ (heightMm - 4) * 283465
           < (maxLines + 1) * typography.fontSize * typography.lineHeight10 * 10000
      /\ maxLines >= 0 => Len(lines) <= maxLines
      /\ maxLines <= 0 => lines = <<>> /\ capacity = 0
      /\ capacity = CountedChars(lines)

C26_Witness ==
  /\ cpc = "returned"
  /\ fontLoads
  /\ Len(lines) = MaxLines(heightMm, typography)
  /\ Len(lines) >= 2
  /\ \E k \in 1..Len(lines) : lines[k] = <<>>
  /\ \E k \in 1..Len(lines) : Len(lines[k]) >= 2
  /\ capacity = CountedChars(lines)
  /\ capacity < Len(measuredText)

\* ------------------------------------------------ properties of the plan
\* Lines that greedy wrapping of the words ws needs in a frame widthMm wide,
\* cur being the line begun: a word joins the line while the line stays
\* within the width, and a word alone on a line always stays.
RECURSIVE GreedyLineCount(_, _, _, _)
GreedyLineCount(ws, cur, width, typ) ==
  IF ws = <<>> THEN (IF cur = <<>> THEN 0 ELSE 1)
  ELSE LET joined == IF cur = <<>> THEN Head(ws) ELSE cur \o <<SP>> \o Head(ws)
           within == WidthOfText(joined) * typ.fontSize * 100
                       + Len(joined) * typ.characterSpacing * 100000
                     <= width * 283465
       IN  IF cur = <<>> \/ within
             THEN GreedyLineCount(Tail(ws), joined, width, typ)
             ELSE 1 + GreedyLineCount(Tail(ws), Head(ws), width, typ)

\* Lines the paragraphs ps need, a blank paragraph taking one line.
RECURSIVE ParagraphLineCount(_, _, _)
ParagraphLineCount(ps, width, typ) ==
  IF ps = <<>> THEN 0
  ELSE (IF Trim(Head(ps)) = <<>> THEN 1
        ELSE GreedyLineCount(SplitWords(Head(ps)), <<>>, width, typ))
       + ParagraphLineCount(Tail(ps), width, typ)

\* Lines the text s needs in a frame of that width; the empty text needs none.
LinesNeeded(s, width, typ) ==
  IF s = <<>> THEN 0 ELSE ParagraphLineCount(SplitLines(s), width, typ)

\* The lines fit a frame heightMm high: their height is at most the height
\* less 2 mm of padding above and below.
FitsHeight(n, height, typ) ==
  n * typ.fontSize * typ.lineHeight10 * 10000 <= (height - 4) * 283465

MaxInputs == 4

\* An input item either fits its first page or needs continuation pages.
ItemKinds == {"short", "long"}

\* The document generate produces for item k of the request.
DocumentOf(k, item) == [item |-> k, pages |-> IF item = "long" THEN 2 ELSE 1]

FinalPdf_Last(ps) == ps[Len(ps)]

\* pdfs[0] in both branches of lines 874-881.
FinalPdf(ps) == ps[1]

BatchInit ==
  /\ inputs \in SeqsOf(ItemKinds, 0, MaxInputs)
  /\ itemNo = 0
  /\ pdfs = <<>>
  /\ finalResponse = [status |-> 0, body |-> <<>>, error |-> ""]
  /\ bpc = "idle"
  /\ SplitIdle
  /\ RenderIdle
  /\ CapacityIdle
  /\ LimiterIdle
  /\ AuthIdle
  /\ ComposeIdle

\* Lines 591-593 and 618: an empty inputs array is answered 400, any other
\* starts the loop with pdfs = [].
CheckInputs ==
  /\ bpc = "idle"
  /\ finalResponse.status = 0
  /\ IF Len(inputs) = 0
       THEN /\ finalResponse' = [status |-> 400, body |-> <<>>,
                                 error |-> "inputs must be a non-empty array"]
            /\ bpc' = "sent"
       ELSE /\ bpc' = "loop"
            /\ UNCHANGED finalResponse
  /\ UNCHANGED <<inputs, itemNo, pdfs>>
  /\ UNCHANGED <<splitVars, renderVars, capVars, limiterVars, authVars, composeVars>>

\* One pass of the for loop of lines 619-871: the item is rendered and its
\* document pushed, or something in the pass throws and control reaches the
\* catch of line 888.
RenderItem ==
  /\ bpc = "loop"
  /\ itemNo < Len(inputs)
  /\ itemNo' = itemNo + 1
  /\ \E succeeds \in BOOLEAN :
       IF succeeds
         THEN /\ pdfs' = Append(pdfs, DocumentOf(itemNo', inputs[itemNo']))
              /\ UNCHANGED bpc
         ELSE /\ bpc' = "catch"
              /\ UNCHANGED pdfs
  /\ UNCHANGED <<inputs, finalResponse>>
  /\ UNCHANGED <<splitVars, renderVars, capVars, limiterVars, authVars, composeVars>>

\* Lines 873-887: after the loop the first document is sent.
SendFinal ==
  /\ bpc = "loop"
  /\ itemNo = Len(inputs)
  /\ finalResponse' = [status |-> 200, body |-> <<FinalPdf(pdfs)>>, error |-> ""]
  /\ bpc' = "sent"
  /\ UNCHANGED <<inputs, itemNo, pdfs>>
  /\ UNCHANGED <<splitVars, renderVars, capVars, limiterVars, authVars, composeVars>>

\* Lines 888-896.
BatchError ==
  /\ bpc = "catch"
  /\ finalResponse' = [status |-> 500, body |-> <<>>, error |-> "render error"]
  /\ bpc' = "sent"
  /\ UNCHANGED <<inputs, itemNo, pdfs>>
  /\ UNCHANGED <<splitVars, renderVars, capVars, limiterVars, authVars, composeVars>>

BatchNext == CheckInputs \/ RenderItem \/ SendFinal \/ BatchError

BatchSpec == BatchInit /\ [][BatchNext]_vars

\* ---------------------------------------------------------------------
\* properties of a request with several inputs
\* ---------------------------------------------------------------------

MaxRequests == 7
MaxTime == 4

MAX_AUTH_ATTEMPTS == 5

\* 15 minutes, in units of five minutes.
ATTEMPT_WINDOW == 3

\* req.path as its segments; a route is matched without regard to case,
\* req.path keeps the case of the request.
LowerCase(segment) == IF segment = "API" THEN "api" ELSE segment

RouteOf(path) == [k \in DOMAIN path |-> LowerCase(path[k])]

\* req.path.startsWith('/api/')
StartsWithApi(path) == Len(path) >= 2 /\ path[1] = "api"

\* auth of lines 159-165: does the request go on to its handler?
Authorized(configured, scheme, token) ==
  \/ configured = ""
  \/ scheme = "Bearer" /\ token # "" /\ token = configured

GetTemplatesBadBearer ==
  [method |-> "GET", path |-> <<"api", "templates">>, scheme |-> "Bearer", token |-> "wrong"]

PostRenderBadBearer ==
  [method |-> "POST", path |-> <<"api", "render">>, scheme |-> "Bearer", token |-> "wrong"]

GetHealth ==
  [method |-> "GET", path |-> <<"api", "health">>, scheme |-> "none", token |-> ""]

GetHealthUpperCase ==
  [method |-> "GET", path |-> <<"API", "health">>, scheme |-> "none", token |-> ""]

LimitedRequests == {GetTemplatesBadBearer, PostRenderBadBearer, GetHealth, GetHealthUpperCase}

\* express.static of line 130 looks a GET up in public/ before it passes the
\* request on, so the answer of a route comes in a later turn; any other
\* method runs through to its route in the turn of the rate limiter.
AnsweredLater(req) == req.method = "GET"

\* The status the route sends with res.json: /api/health has no auth
\* (line 507), the other routes answer 401 without the token.
StatusOf(req) ==
  IF RouteOf(req.path) = <<"api", "health">> THEN 200
  ELSE IF Authorized(editorAuthToken, req.scheme, req.token) THEN 200
  ELSE 401

\* record.count++ of line 101.
CountFailure(rs, r) == [rs EXCEPT ![r].count = @ + 1]

\* The replaced res.send of lines 99-107, called for req with the record
\* the rate limiter held when req passed it: the records and the map entry
\* after it.
SendRecords(req, rs, r) ==
  IF StatusOf(req) = 401 THEN CountFailure(rs, r) ELSE rs

SendMapEntry(req, entry) ==
  IF StatusOf(req) = 200 /\ ~StartsWithApi(req.path) THEN 0 ELSE entry

\* History: the time and the window of the record of the IP when its count
\* reaches MAX_AUTH_ATTEMPTS.
BlockedAfter(req, rs, r, entry) ==
  IF StatusOf(req) = 401 /\ r = entry /\ rs[r].count + 1 = MAX_AUTH_ATTEMPTS
    THEN <<[at |-> now, windowStart |-> rs[r].firstAttempt]>>
    ELSE blocked

LimiterInit ==
  /\ now = 0
  /\ authAttempts = 0
  /\ records = <<>>
  /\ inFlight = [q \in {req \in LimitedRequests : AnsweredLater(req)} \X (1..MaxRequests) |-> 0]
  /\ arrived = 0
  /\ rejected = 0
  /\ blocked = <<>>
  /\ editorAuthToken = "secret"
  /\ request = [route |-> "none", scheme |-> "none", token |-> ""]
  /\ effects = {}
  /\ apiResponse = 0
  /\ apc = "idle"
  /\ SplitIdle
  /\ RenderIdle
  /\ CapacityIdle
  /\ BatchIdle
  /\ ComposeIdle

\* Date.now() advances.
Tick ==
  /\ now < MaxTime
  /\ now' = now + 1
  /\ UNCHANGED <<authAttempts, records, inFlight, arrived, rejected, blocked>>
  /\ UNCHANGED <<splitVars, renderVars, capVars, batchVars, authVars, composeVars>>

\* rateLimitMiddleware, lines 76-111, for one request, with the route's
\* answer when it comes in the same turn.
Arrive(req) ==
  /\ arrived < MaxRequests
  /\ arrived' = arrived + 1
  /\ LET made == IF authAttempts = 0
                   THEN Append(records, [count |-> 0, firstAttempt |-> now])
                   ELSE records
         r == IF authAttempts = 0 THEN Len(made) ELSE authAttempts
         rs == IF now - made[r].firstAttempt > ATTEMPT_WINDOW
                 THEN [made EXCEPT ![r] = [count |-> 0, firstAttempt |-> now]]
                 ELSE made
     IN IF rs[r].count >= MAX_AUTH_ATTEMPTS
          THEN /\ rejected' = rejected + 1
               /\ records' = rs
               /\ authAttempts' = r
               /\ UNCHANGED <<inFlight, blocked>>
          ELSE IF AnsweredLater(req)
            THEN /\ inFlight' = [inFlight EXCEPT ![<<req, r>>] = @ + 1]
                 /\ records' = rs
                 /\ authAttempts' = r
                 /\ UNCHANGED <<rejected, blocked>>
            ELSE /\ records' = SendRecords(req, rs, r)
                 /\ authAttempts' = SendMapEntry(req, r)
                 /\ blocked' = BlockedAfter(req, rs, r, r)
                 /\ UNCHANGED <<inFlight, rejected>>
  /\ UNCHANGED now
  /\ UNCHANGED <<splitVars, renderVars, capVars, batchVars, authVars, composeVars>>

\* The route of a request in flight answers: the replaced res.send of
\* lines 99-107 runs with the record r of the request.
Send(req, r) ==
  /\ inFlight[<<req, r>>] > 0
  /\ inFlight' = [inFlight EXCEPT ![<<req, r>>] = @ - 1]
  /\ records' = SendRecords(req, records, r)
  /\ authAttempts' = SendMapEntry(req, authAttempts)
  /\ blocked' = BlockedAfter(req, records, r, authAttempts)
  /\ UNCHANGED <<now, arrived, rejected>>
  /\ UNCHANGED <<splitVars, renderVars, capVars, batchVars, authVars, composeVars>>

LimiterNext ==
  \/ Tick
  \/ \E req \in LimitedRequests : Arrive(req)
  \/ \E q \in DOMAIN inFlight : Send(q[1], q[2])

LimiterSpec == LimiterInit /\ [][LimiterNext]_vars

\* ---------------------------------------------------------------------
\* properties of the rate limiter
\* ---------------------------------------------------------------------

\* C29: whatever the interleaving of the requests of the IP, the failure
\* count of a record never exceeds MAX_AUTH_ATTEMPTS, so no window sees
\* more than 5 answers with status 401.
C29_CounterBounded ==
  \A r \in 1..Len(records) : records[r].count <= MAX_AUTH_ATTEMPTS

\* C22: once the record of the IP has reached 5 failures, every request
\* that arrives afterwards and within the window of that record is
\* answered 429 by the rate limiter.
C22_BlockedWithinWindow ==
  [][(/\ arrived' = arrived + 1
      /\ blocked # <<>>
      /\ now <= blocked[1].windowStart + ATTEMPT_WINDOW)
     => rejected' = rejected + 1]_vars

\* C23: while the record of the IP holds 5 failures, no request passes the
\* rate limiter earlier than ATTEMPT_WINDOW after the time the fifth was
\* recorded.
C23_BlockedFromBlocking ==
  [][(/\ arrived' = arrived + 1
      /\ blocked # <<>>
      /\ authAttempts # 0
      /\ records[authAttempts].count >= MAX_AUTH_ATTEMPTS
      /\ now < blocked[1].at + ATTEMPT_WINDOW)
     => rejected' = rejected + 1]_vars

\* ---------------------------------------------------------------------
\* the routes under /api/ and auth (src/server.js:139-141, 159-165, 507-971)
\* EDITOR_USERNAME and EDITOR_PASSWORD are not set, so that
\* sessionAuthMiddleware passes every request on (line 30).
\* ---------------------------------------------------------------------

\* One route: whether auth is in its middleware list, what its handler
\* does, the status it answers when it has done it, and the status with
\* which it can refuse a request it does not accept (0: it has none).
Route(method, path, guarded, effect, status, refusal) ==
  [method |-> method, path |-> path, guarded |-> guarded, effect |-> effect,
   status |-> status, refusal |-> refusal]

Routes ==
  { Route("GET", "/api/render", FALSE, "none", 405, 0),
    Route("GET", "/api/health", FALSE, "none", 200, 0),
    Route("GET", "/api/auth/verify", FALSE, "none", 200, 0),
    Route("GET", "/api/debug/auth-config", FALSE, "configuration disclosed", 200, 0),
    Route("GET", "/api/templates", TRUE, "templates listed", 200, 0),
    Route("GET", "/api/templates/:id", TRUE, "template read", 200, 404),
    Route("POST", "/api/templates", TRUE, "template created", 201, 400),
    Route("PUT", "/api/templates/:id", TRUE, "template updated", 200, 400),
    Route("DELETE", "/api/templates/:id", TRUE, "template deleted", 204, 404),
    Route("POST", "/api/render", TRUE, "template rendered", 200, 400),
    Route("POST", "/api/preview", TRUE, "preview fetched", 200, 400),
    Route("POST", "/api/compose", TRUE, "pages composed", 200, 400) }

\* The Authorization header of a request, as its scheme and what follows it.
Headers ==
  { [scheme |-> "none", token |-> ""],
    [scheme |-> "Basic", token |-> "secret"],
    [scheme |-> "Bearer", token |-> ""],
    [scheme |-> "Bearer", token |-> "wrong"],
    [scheme |-> "Bearer", token |-> "secret"] }

AuthInit ==
  /\ editorAuthToken \in {"", "secret"}
  /\ request = [route |-> "none", scheme |-> "none", token |-> ""]
  /\ effects = {}
  /\ apiResponse = 0
  /\ apc = "idle"
  /\ SplitIdle
  /\ RenderIdle
  /\ CapacityIdle
  /\ BatchIdle
  /\ LimiterIdle
  /\ ComposeIdle

\* A request for a route arrives.
Receive ==
  /\ apc = "idle"
  /\ \E route \in Routes, header \in Headers :
       request' = [route |-> route, scheme |-> header.scheme, token |-> header.token]
  /\ apiResponse' = 0
  /\ apc' = "received"
  /\ UNCHANGED <<editorAuthToken, effects>>
  /\ UNCHANGED <<splitVars, renderVars, capVars, batchVars, limiterVars, composeVars>>

\* The middleware list of the route runs: auth, where the route has it,
\* answers 401 (line 164) or passes the request on to the handler, which
\* does its work or refuses the request.
Handle ==
  /\ apc = "received"
  /\ IF request.route.guarded /\ ~Authorized(editorAuthToken, request.scheme, request.token)
       THEN /\ apiResponse' = 401
            /\ UNCHANGED effects
       ELSE \E accepted \in BOOLEAN :
              IF accepted \/ request.route.refusal = 0
                THEN /\ apiResponse' = request.route.status
                     /\ effects' = effects \cup ({request.route.effect} \ {"none"})
                ELSE /\ apiResponse' = request.route.refusal
                     /\ UNCHANGED effects
  /\ apc' = "idle"
  /\ UNCHANGED <<editorAuthToken, request>>
  /\ UNCHANGED <<splitVars, renderVars, capVars, batchVars, limiterVars, composeVars>>

AuthNext == Receive \/ Handle

AuthSpec == AuthInit /\ [][AuthNext]_vars

\* ---------------------------------------------------------------------
\* properties of the routes
\* ---------------------------------------------------------------------

\* C24: with EDITOR_AUTH_TOKEN set, a request for any route under /api/
\* that does not carry 'Bearer <EDITOR_AUTH_TOKEN>' is answered 401 and
\* nothing is done for it.
C24_TokenGuardsEveryRoute ==
  [][(/\ apc = "received"
      /\ apc' = "idle"
      /\ editorAuthToken # ""
      /\ ~(request.scheme = "Bearer" /\ request.token = editorAuthToken))
     => (apiResponse' = 401 /\ effects' = effects)]_vars

\* ---------------------------------------------------------------------
\* POST /api/compose (src/server.js:916-971)
\* ---------------------------------------------------------------------

MaxEntries == 3

\* The values an entry of pages holds as staticPdfDataUrl: a string is
\* given by what precedes its first colon, whether it has a comma, and
\* what follows the comma.
UrlString(scheme, comma, payload) ==
  [kind |-> "string", scheme |-> scheme, comma |-> comma, payload |-> payload]

UrlValues ==
  { [kind |-> "undefined"],
    [kind |-> "number"],
    UrlString("data:", TRUE, "pdf"),
    UrlString("data:", TRUE, "not a pdf"),
    UrlString("data:", TRUE, ""),
    UrlString("data:", FALSE, ""),
    UrlString("https:", TRUE, "pdf") }

\* The entries of pages: JSON null, or an object with the url.
Entries == {[type |-> "null"]} \cup {[type |-> "object", url |-> u] : u \in UrlValues}

\* Lines 935-946 for one entry: "thrown" when reading the property of null
\* or calling startsWith on a number raises a TypeError, "skipped" at one
\* of the two continue statements, else the base64 data.
ExtractPdfData(page) ==
  IF page.type = "null" THEN "thrown"
  ELSE IF page.url.kind = "undefined" THEN "skipped"
  ELSE IF page.url.kind = "number" THEN "thrown"
  ELSE IF page.url.scheme # "data:" THEN "skipped"
  ELSE IF ~page.url.comma \/ page.url.payload = "" THEN "skipped"
  ELSE page.url.payload

\* PDFDocument.load of line 949 accepts the data.
Loads(pdfData) == pdfData = "pdf"

ComposeInit ==
  /\ requestPages \in SeqsOf(Entries, 0, MaxEntries)
  /\ composeIdx = 0
  /\ composedPdf = <<>>
  /\ composeResponse = [status |-> 0, body |-> <<>>, error |-> ""]
  /\ cmpc = "idle"
  /\ SplitIdle
  /\ RenderIdle
  /\ CapacityIdle
  /\ BatchIdle
  /\ LimiterIdle
  /\ AuthIdle

\* Lines 919-927.
ComposeCheck ==
  /\ cmpc = "idle"
  /\ composeResponse.status = 0
  /\ IF Len(requestPages) = 0
       THEN /\ composeResponse' = [status |-> 400, body |-> <<>>,
                                   error |-> "pages array is required"]
            /\ cmpc' = "sent"
       ELSE /\ cmpc' = "loop"
            /\ UNCHANGED composeResponse
  /\ UNCHANGED <<requestPages, composeIdx, composedPdf>>
  /\ UNCHANGED <<splitVars, renderVars, capVars, batchVars, limiterVars, authVars>>

\* One pass of the loop of lines 929-956; a page of the merged document is
\* named by the number of the entry it was copied from.
ComposeEntry ==
  /\ cmpc = "loop"
  /\ composeIdx < Len(requestPages)
  /\ composeIdx' = composeIdx + 1
  /\ LET pdfData == ExtractPdfData(requestPages[composeIdx'])
     IN IF pdfData = "thrown"
          THEN /\ cmpc' = "catch"
               /\ UNCHANGED composedPdf
          ELSE /\ composedPdf' = IF pdfData # "skipped" /\ Loads(pdfData)
                                   THEN Append(composedPdf, composeIdx')
                                   ELSE composedPdf
               /\ UNCHANGED cmpc
  /\ UNCHANGED <<requestPages, composeResponse>>
  /\ UNCHANGED <<splitVars, renderVars, capVars, batchVars, limiterVars, authVars>>

\* Lines 958-963; the body is given by the pages the loop added.
ComposeSend ==
  /\ cmpc = "loop"
  /\ composeIdx = Len(requestPages)
  /\ composeResponse' = [status |-> 200, body |-> composedPdf, error |-> ""]
  /\ cmpc' = "sent"
  /\ UNCHANGED <<requestPages, composeIdx, composedPdf>>
  /\ UNCHANGED <<splitVars, renderVars, capVars, batchVars, limiterVars, authVars>>

\* Lines 964-971.
ComposeError ==
  /\ cmpc = "catch"
  /\ composeResponse' = [status |-> 500, body |-> <<>>, error |-> "compose error"]
  /\ cmpc' = "sent"
  /\ UNCHANGED <<requestPages, composeIdx, composedPdf>>
  /\ UNCHANGED <<splitVars, renderVars, capVars, batchVars, limiterVars, authVars>>

ComposeNext == ComposeCheck \/ ComposeEntry \/ ComposeSend \/ ComposeError

ComposeSpec == ComposeInit /\ [][ComposeNext]_vars

\* ---------------------------------------------------------------------
\* properties of the composition
\* ---------------------------------------------------------------------

\* An entry with a data URL that holds a loadable PDF.
IsGoodEntry(page) ==
  /\ page.type = "object"
  /\ page.url = UrlString("data:", TRUE, "pdf")

RECURSIVE GoodEntries(_, _)
GoodEntries(ps, k) ==
  IF k > Len(ps) THEN <<>>
  ELSE (IF IsGoodEntry(ps[k]) THEN <<k>> ELSE <<>>) \o GoodEntries(ps, k + 1)

\* C30: a request with a non-empty pages array is answered 200 with the
\* pages of exactly its good entries, in request order, whatever its other
\* entries are.
C30_BadEntriesSkipped ==
  (cmpc = "sent" /\ requestPages # <<>>) =>
    /\ composeResponse.status = 200
    /\ composeResponse.body = GoodEntries(requestPages, 1)

============================================================================
